---------------------------- MODULE Spec2Model ----------------------------
(***************************************************************************)
(* Model of the Kalman filtering crate (src/src/kalman.rs).                *)
(*                                                                         *)
(* The crate computes on f64.  An f64 is modelled bit-exactly: IEEE-754    *)
(* binary64 with round-to-nearest-even, signed zeros, subnormals,          *)
(* infinities and NaN.  A 53-bit significand does not fit a TLC integer,   *)
(* so significands are little-endian sequences of 15-bit limbs.            *)
(***************************************************************************)
EXTENDS Integers, Sequences, FiniteSets, TLC

(***************************************************************************)
(* Natural numbers of arbitrary size: little-endian limb sequences in base *)
(* 2^15, canonical (no leading zero limb; zero is the empty sequence).     *)
(***************************************************************************)
LimbBits == 15
Base == 32768

RECURSIVE Pow2(_)
Pow2(n) == IF n = 0 THEN 1 ELSE 2 * Pow2(n - 1)

RECURSIVE BTrim(_)
BTrim(a) ==
    IF a = <<>> THEN <<>>
    ELSE IF a[Len(a)] = 0 THEN BTrim(SubSeq(a, 1, Len(a) - 1))
    ELSE a

BZero == <<>>

BFromInt(n) ==
    IF n = 0 THEN <<>>
    ELSE IF n < Base THEN <<n>>
    ELSE <<n % Base, n \div Base>>

RECURSIVE BAddC(_, _, _)
BAddC(a, b, c) ==
    IF a = <<>> /\ b = <<>> THEN (IF c = 0 THEN <<>> ELSE <<c>>)
    ELSE LET x == IF a = <<>> THEN 0 ELSE Head(a)
             y == IF b = <<>> THEN 0 ELSE Head(b)
             s == x + y + c
             ta == IF a = <<>> THEN <<>> ELSE Tail(a)
             tb == IF b = <<>> THEN <<>> ELSE Tail(b)
         IN  <<s % Base>> \o BAddC(ta, tb, s \div Base)

BAdd(a, b) == BAddC(a, b, 0)

\* a - b - c for a >= b + c; the result is not trimmed.
RECURSIVE BSubC(_, _, _)
BSubC(a, b, c) ==
    IF a = <<>> THEN <<>>
    ELSE LET y == IF b = <<>> THEN 0 ELSE Head(b)
             tb == IF b = <<>> THEN <<>> ELSE Tail(b)
             s == Head(a) - y - c
         IN  IF s < 0 THEN <<s + Base>> \o BSubC(Tail(a), tb, 1)
             ELSE <<s>> \o BSubC(Tail(a), tb, 0)

BSub(a, b) == BTrim(BSubC(a, b, 0))

\* -1, 0, 1 as a < b, a = b, a > b (both canonical).
RECURSIVE BCmpTop(_, _, _)
BCmpTop(a, b, i) ==
    IF i = 0 THEN 0
    ELSE IF a[i] < b[i] THEN -1
    ELSE IF a[i] > b[i] THEN 1
    ELSE BCmpTop(a, b, i - 1)

BCmp(a, b) ==
    IF Len(a) < Len(b) THEN -1
    ELSE IF Len(a) > Len(b) THEN 1
    ELSE BCmpTop(a, b, Len(a))

\* a * d + c for a limb d and a carry c < Base; not trimmed when d = 0.
RECURSIVE BMulSmallC(_, _, _)
BMulSmallC(a, d, c) ==
    IF a = <<>> THEN (IF c = 0 THEN <<>> ELSE <<c>>)
    ELSE LET s == Head(a) * d + c
         IN  <<s % Base>> \o BMulSmallC(Tail(a), d, s \div Base)

BMulSmall(a, d) == IF d = 0 THEN <<>> ELSE BMulSmallC(a, d, 0)

BShiftLimb(a) == IF a = <<>> THEN <<>> ELSE <<0>> \o a

RECURSIVE BMul(_, _)
BMul(a, b) ==
    IF a = <<>> \/ b = <<>> THEN <<>>
    ELSE BAdd(BMulSmall(a, Head(b)), BShiftLimb(BMul(a, Tail(b))))

RECURSIVE IntBitLen(_)
IntBitLen(n) == IF n = 0 THEN 0 ELSE 1 + IntBitLen(n \div 2)

BBitLen(a) ==
    IF a = <<>> THEN 0 ELSE LimbBits * (Len(a) - 1) + IntBitLen(a[Len(a)])

BIsOdd(a) == a # <<>> /\ a[1] % 2 = 1

RECURSIVE BShiftLimbs(_, _)
BShiftLimbs(a, j) == IF j = 0 THEN a ELSE BShiftLimbs(BShiftLimb(a), j - 1)

\* a * 2^k
BShl(a, k) ==
    BShiftLimbs(BMulSmall(a, Pow2(k % LimbBits)), k \div LimbBits)

\* floor(a / 2^i) for 0 <= i < LimbBits, limb by limb from the top.
RECURSIVE BShrBits(_, _, _)
BShrBits(a, i, n) ==
    IF n > Len(a) THEN <<>>
    ELSE LET hi == IF n = Len(a) THEN 0 ELSE a[n + 1] % Pow2(i)
         IN  <<(a[n] \div Pow2(i)) + hi * Pow2(LimbBits - i)>>
                 \o BShrBits(a, i, n + 1)

\* floor(a / 2^k), and whether a nonzero bit was shifted out.
BShrParts(dropped, kept, i) ==
    [q |-> BTrim(BShrBits(kept, i, 1)),
     lost |-> \/ (kept # <<>> /\ kept[1] % Pow2(i) # 0)
              \/ (\E n \in 1..Len(dropped) : dropped[n] # 0)]

BShrLimbs(a, j, i) ==
    BShrParts(SubSeq(a, 1, IF j < Len(a) THEN j ELSE Len(a)),
              IF j >= Len(a) THEN <<>> ELSE SubSeq(a, j + 1, Len(a)), i)

BShr(a, k) == BShrLimbs(a, k \div LimbBits, k % LimbBits)

\* One digit of a long division: for r < d * Base and d with its top limb
\* >= Base/2, the quotient floor(r / d) (a limb) and the remainder.
RECURSIVE BFixDigit(_, _, _)
BFixTry(r, d, q, prod) ==
    IF BCmp(prod, r) > 0 THEN BFixDigit(r, d, q - 1)
    ELSE [q |-> q, r |-> BSub(r, prod)]

BFixDigit(r, d, q) == BFixTry(r, d, q, BMulSmall(d, q))

\* The two limbs of r that stand over the top limb of d (n limbs long).
BTop2(r, n) ==
    (IF Len(r) > n THEN r[n + 1] * Base ELSE 0)
    + (IF Len(r) >= n THEN r[n] ELSE 0)

BLimbMin(est) == IF est > Base - 1 THEN Base - 1 ELSE est

BDivDigit(r, d) == BFixDigit(r, d, BLimbMin(BTop2(r, Len(d)) \div d[Len(d)]))

\* floor(u * Base^k / d) and whether the remainder is nonzero, for u < 2 * d.
RECURSIVE BDivLoop(_, _, _, _)
BDivNext(s, d, q, k) == BDivLoop(s.r, d, <<s.q>> \o q, k)

BDivLoop(r, d, q, k) ==
    IF k = 0 THEN [q |-> BTrim(q), lost |-> r # <<>>]
    ELSE BDivNext(BDivDigit(BShiftLimb(r), d), d, q, k - 1)

BDivScaled(u, d, k) == BDivNext(BDivDigit(u, d), d, <<>>, k)

(***************************************************************************)
(* f64.  A finite value is (-1)^sgn * man * 2^exp with man < 2^53 and      *)
(* either 2^52 <= man (normal, EMin <= exp <= EMax) or exp = EMin          *)
(* (subnormal or zero).  cls is "fin", "inf" or "nan".                     *)
(***************************************************************************)
MantBits == 53
EMin == -1074
EMax == 971

One == <<1>>

NaN == [cls |-> "nan", sgn |-> 0, exp |-> EMin, man |-> BZero]
Inf(s) == [cls |-> "inf", sgn |-> s, exp |-> EMin, man |-> BZero]
Zero(s) == [cls |-> "fin", sgn |-> s, exp |-> EMin, man |-> BZero]
Fin(s, m, e) == [cls |-> "fin", sgn |-> s, exp |-> e, man |-> m]

\* The f64 nearest (ties to even) to (-1)^s * (m + frac) * 2^e, where frac is
\* some value in (0, 1) if sticky and 0 otherwise.
\* The rounding proceeds in stages, each handing its values to the next.
Finite(s, m, e) == IF e > EMax THEN Inf(s) ELSE Fin(s, m, e)

\* m1 is the rounded significand at exponent et; a carry out of 53 bits
\* leaves a power of two.
Renorm(s, m1, et) ==
    IF BBitLen(m1) > MantBits THEN Finite(s, BShr(m1, 1).q, et + 1)
    ELSE Finite(s, m1, et)

\* m0 is the truncated significand, guard the first bit cut off, rest whether
\* anything nonzero lies below the guard bit.
RoundEven(s, m0, et, guard, rest) ==
    Renorm(s, IF guard /\ (rest \/ BIsOdd(m0)) THEN BAdd(m0, One) ELSE m0, et)

\* s1 is m cut off one bit above the target exponent et.
RoundGuard(s, s1, et, sticky) ==
    RoundEven(s, BShr(s1.q, 1).q, et, BIsOdd(s1.q), s1.lost \/ sticky)

RoundAt(s, m, e, sticky, et) ==
    IF et <= e THEN Finite(s, BShl(m, e - et), et)
    ELSE RoundGuard(s, BShr(m, et - e - 1), et, sticky)

\* The exponent of the result: that of a 53-bit significand, or EMin.
TargetExp(e, len) ==
    IF e + len - MantBits < EMin THEN EMin ELSE e + len - MantBits

RoundPack(s, m, e, sticky) ==
    IF m = BZero THEN Zero(s)
    ELSE RoundAt(s, m, e, sticky, TargetExp(e, BBitLen(m)))

\* n * 2^e for a natural number n < 2^30.
FromInt(n, e) == RoundPack(0, BFromInt(n), e, FALSE)

\* A faulty finiteness test that only excludes NaN, so that an infinity counts
\* as finite.
is_not_nan(x) == x.cls # "nan"

is_finite(x) == x.cls = "fin"

IsZero(x) == x.cls = "fin" /\ x.man = BZero

FNeg(x) == IF x.cls = "nan" THEN x ELSE [x EXCEPT !.sgn = 1 - x.sgn]

abs(x) == IF x.cls = "nan" THEN x ELSE [x EXCEPT !.sgn = 0]

\* Order of the magnitudes of two non-NaN values: -1, 0, 1.
MagCmp(a, b) ==
    IF a.cls = "inf" THEN (IF b.cls = "inf" THEN 0 ELSE 1)
    ELSE IF b.cls = "inf" THEN -1
    ELSE IF a.exp < b.exp THEN -1
    ELSE IF a.exp > b.exp THEN 1
    ELSE BCmp(a.man, b.man)

\* Order of two non-NaN values: -1, 0, 1 (the two zeros are equal).
FCmp(a, b) ==
    IF IsZero(a) /\ IsZero(b) THEN 0
    ELSE IF a.sgn # b.sgn THEN (IF a.sgn = 1 THEN -1 ELSE 1)
    ELSE IF a.sgn = 0 THEN MagCmp(a, b) ELSE MagCmp(b, a)

Ordered(a, b) == a.cls # "nan" /\ b.cls # "nan"
FLt(a, b) == Ordered(a, b) /\ FCmp(a, b) < 0
FLe(a, b) == Ordered(a, b) /\ FCmp(a, b) <= 0
FGt(a, b) == Ordered(a, b) /\ FCmp(a, b) > 0
FGe(a, b) == Ordered(a, b) /\ FCmp(a, b) >= 0

\* Exponent gap beyond which the smaller addend only decides the rounding.
FarGap == 58

\* An exact sum before rounding: (-1)^s * (m + frac) * 2^e.
Exact(s, m, e, sticky) == [s |-> s, m |-> m, e |-> e, sticky |-> sticky]

RoundExact(v) == RoundPack(v.s, v.m, v.e, v.sticky)

\* hi far above lo: m8 is hi's significand with three more bits.
AddFar(hi, lo, m8) ==
    Exact(hi.sgn, IF hi.sgn = lo.sgn THEN m8 ELSE BSub(m8, One),
          hi.exp - 3, TRUE)

\* x is hi's significand at lo's exponent.
AddNear(hi, lo, x) ==
    IF hi.sgn = lo.sgn THEN Exact(hi.sgn, BAdd(x, lo.man), lo.exp, FALSE)
    ELSE IF BCmp(x, lo.man) = 0 THEN Exact(0, BZero, lo.exp, FALSE)
    ELSE IF BCmp(x, lo.man) > 0
    THEN Exact(hi.sgn, BSub(x, lo.man), lo.exp, FALSE)
    ELSE Exact(lo.sgn, BSub(lo.man, x), lo.exp, FALSE)

\* The sum of two nonzero finite values, hi.exp >= lo.exp.
AddOrdered(hi, lo) ==
    IF hi.exp - lo.exp >= FarGap THEN AddFar(hi, lo, BShl(hi.man, 3))
    ELSE AddNear(hi, lo, BShl(hi.man, hi.exp - lo.exp))

AddFinite(a, b) ==
    IF IsZero(a) /\ IsZero(b)
    THEN Zero(IF a.sgn = b.sgn THEN a.sgn ELSE 0)
    ELSE IF IsZero(a) THEN b
    ELSE IF IsZero(b) THEN a
    ELSE RoundExact(AddOrdered(IF a.exp >= b.exp THEN a ELSE b,
                               IF a.exp >= b.exp THEN b ELSE a))

FAdd(a, b) ==
    IF a.cls = "nan" \/ b.cls = "nan" THEN NaN
    ELSE IF a.cls = "inf"
    THEN (IF b.cls = "inf" /\ b.sgn # a.sgn THEN NaN ELSE a)
    ELSE IF b.cls = "inf" THEN b
    ELSE AddFinite(a, b)

FSub(a, b) == FAdd(a, FNeg(b))

\* The sign of a product or a quotient.
SignOf(a, b) == (a.sgn + b.sgn) % 2

FMul(a, b) ==
    IF a.cls = "nan" \/ b.cls = "nan" THEN NaN
    ELSE IF a.cls = "inf" \/ b.cls = "inf"
    THEN (IF IsZero(a) \/ IsZero(b) THEN NaN ELSE Inf(SignOf(a, b)))
    ELSE IF IsZero(a) \/ IsZero(b) THEN Zero(SignOf(a, b))
    ELSE RoundPack(SignOf(a, b), BMul(a.man, b.man), a.exp + b.exp, FALSE)

\* Limbs of quotient computed below the leading one, and the shift that
\* brings a 53-bit significand's top bit to the top of its fourth limb.
QuotLimbs == 4
NormShift == 7

DivRound(s, r, e) == RoundPack(s, r.q, e, r.lost)

\* la and lb are the shifts that make the two significands 53 bits long.
DivNorm(a, b, s, la, lb) ==
    DivRound(s, BDivScaled(BShl(a.man, la + NormShift),
                           BShl(b.man, lb + NormShift), QuotLimbs),
             (a.exp - la) - (b.exp - lb) - QuotLimbs * LimbBits)

DivFinite(a, b, s) ==
    DivNorm(a, b, s, MantBits - BBitLen(a.man), MantBits - BBitLen(b.man))

FDiv(a, b) ==
    IF a.cls = "nan" \/ b.cls = "nan" THEN NaN
    ELSE IF a.cls = "inf"
    THEN (IF b.cls = "inf" THEN NaN ELSE Inf(SignOf(a, b)))
    ELSE IF b.cls = "inf" THEN Zero(SignOf(a, b))
    ELSE IF IsZero(b) THEN (IF IsZero(a) THEN NaN ELSE Inf(SignOf(a, b)))
    ELSE IF IsZero(a) THEN Zero(SignOf(a, b))
    ELSE DivFinite(a, b, SignOf(a, b))

(***************************************************************************)
(* f64 literals of the source.                                             *)
(***************************************************************************)
F0 == Zero(0)
F1 == FromInt(1, 0)
F2 == FromInt(2, 0)

\* const TINY_NEG_CLAMP: f64 = 1e-15, that is 0x1.203af9ee75616p-50.
TINY_NEG_CLAMP == Fin(0, <<22038, 15822, 3774, 144>>, -102)

(***************************************************************************)
(* MathError (src/src/errors.rs) and MathResult (src/src/lib.rs).          *)
(***************************************************************************)
InsufficientDataAlgo(required, actual) ==
    [kind |-> "InsufficientDataAlgo", required |-> required, actual |-> actual]

InvalidParameter(parameter, value, constraint) ==
    [kind |-> "InvalidParameter", parameter |-> parameter, value |-> value,
     constraint |-> constraint]

InvalidData(msg) == [kind |-> "InvalidData", msg |-> msg]

NumericalError(reason, operation) ==
    [kind |-> "NumericalError", reason |-> reason, operation |-> operation]

NumericalInstability(msg) == [kind |-> "NumericalInstability", msg |-> msg]

Ok(v) == [tag |-> "Ok", val |-> v]
Err(e) == [tag |-> "Err", err |-> e]

\* The value ().
Unit == <<>>

\* An out-of-bounds slice index aborts the call: no value is returned.
Panic == [tag |-> "Panic"]

(***************************************************************************)
(* src/src/kalman.rs                                                       *)
(***************************************************************************)
\* A faulty clamp that hands a tiny negative value back as it came.
clamp_keeps_tiny(x) ==
    IF is_finite(x) /\ FGe(x, F0) THEN Ok(x)
    ELSE IF is_finite(x) /\ FLt(x, F0) /\ FLe(abs(x), TINY_NEG_CLAMP)
    THEN Ok(x)
    ELSE Err(NumericalInstability("kalman: covariance became negative"))

clamp_small_negative(x) ==
    IF is_finite(x) /\ FGe(x, F0) THEN Ok(x)
    ELSE IF is_finite(x) /\ FLt(x, F0) /\ FLe(abs(x), TINY_NEG_CLAMP)
    THEN Ok(F0)
    ELSE Err(NumericalInstability("kalman: covariance became negative"))

\* A faulty domain check that permits zero whatever the flag says.
validate_variance_zero_ok(name, v, allow_zero) ==
    IF ~is_finite(v)
    THEN Err(InvalidParameter(name, v, "must be finite"))
    ELSE IF FLt(v, F0)
    THEN Err(InvalidParameter(name, v, "must be >= 0"))
    ELSE Ok(Unit)

validate_variance(name, v, allow_zero) ==
    IF ~is_finite(v)
    THEN Err(InvalidParameter(name, v, "must be finite"))
    ELSE IF allow_zero
    THEN (IF FLt(v, F0)
          THEN Err(InvalidParameter(name, v, "must be >= 0"))
          ELSE Ok(Unit))
    ELSE IF FLe(v, F0)
    THEN Err(InvalidParameter(name, v, "must be > 0"))
    ELSE Ok(Unit)

\* A faulty series check that does not compare the buffer lengths.
validate_series_no_len(y, out_mean, out_var) ==
    IF Len(y) = 0 THEN Err(InsufficientDataAlgo(1, 0))
    ELSE IF \E i \in 1..Len(y) : ~is_finite(y[i])
    THEN Err(InvalidData("kalman: all observations must be finite"))
    ELSE Ok(Unit)

validate_series(y, out_mean, out_var) ==
    IF Len(y) = 0 THEN Err(InsufficientDataAlgo(1, 0))
    ELSE IF \E i \in 1..Len(y) : ~is_finite(y[i])
    THEN Err(InvalidData("kalman: all observations must be finite"))
    ELSE IF Len(out_mean) # Len(y) \/ Len(out_var) # Len(y)
    THEN Err(InvalidParameter("out", F0,
                              "out_mean and out_var must match y length"))
    ELSE Ok(Unit)

\* The body of the local-level loop up to the writes, one operator for each
\* stretch between two early returns, last stretch first: the updated
\* (x, p), or the error the iteration returns.
\*     let p_upd = clamp_small_negative(p_upd)?;
LevelClamped(x, c2) ==
    IF c2.tag = "Err" THEN c2 ELSE Ok([x |-> x, p |-> c2.val])

\* A faulty covariance update whose noise term is k * r, the square lost.
LevelJosephLinear(r, p_pred, k, x, one_minus_k) ==
    LevelClamped(x, clamp_small_negative(
        FAdd(FMul(FMul(one_minus_k, one_minus_k), p_pred), FMul(k, r))))

\*     let p_upd = (1.0 - k) * (1.0 - k) * p_pred + k * k * r;
LevelJoseph(r, p_pred, k, x, one_minus_k) ==
    LevelClamped(x, clamp_small_negative(
        FAdd(FMul(FMul(one_minus_k, one_minus_k), p_pred),
             FMul(FMul(k, k), r))))

\*     if !x.is_finite() { return Err(..) }
LevelUpdated(r, p_pred, k, x) ==
    IF ~is_finite(x)
    THEN Err(NumericalError("kalman: non-finite updated mean",
                            "kalman_local_level_filter_into"))
    ELSE LevelJoseph(r, p_pred, k, x, FSub(F1, k))

\*     let k = p_pred / s; let innov = obs - x; x += k * innov;
LevelGain(obs, r, x, p_pred, k) ==
    LevelUpdated(r, p_pred, k, FAdd(x, FMul(k, FSub(obs, x))))

\*     if !(s.is_finite() && s > 0.0) { return Err(..) }
LevelInnovation(obs, r, x, p_pred, s) ==
    IF ~(is_finite(s) /\ FGt(s, F0))
    THEN Err(NumericalInstability("kalman: invalid innovation variance"))
    ELSE LevelGain(obs, r, x, p_pred, FDiv(p_pred, s))

\*     let p_pred = clamp_small_negative(p + q)?; let s = p_pred + r;
LevelPredicted(obs, r, x, c1) ==
    IF c1.tag = "Err" THEN c1
    ELSE LevelInnovation(obs, r, x, c1.val, FAdd(c1.val, r))

LevelStep(obs, r, q, x, p) ==
    LevelPredicted(obs, r, x, clamp_small_negative(FAdd(p, q)))

\* What a call of the local-level filter leaves: its return value, the two
\* buffers, and t, the index of the iteration it ended in (Len(y) when the
\* loop ran to its end).
LevelOutcome(res, out_mean, out_var, t) ==
    [res |-> res, out_mean |-> out_mean, out_var |-> out_var, t |-> t]

\* for (t, &obs) in y.iter().enumerate() { ...; out_mean[t] = x; out_var[t] = p; }
\* vec![0.0f64; n]
ZeroVec(n) == [i \in 1..n |-> F0]

RECURSIVE LevelLoop(_, _, _, _, _, _, _, _)
\* A faulty end of iteration that clears both buffers when the body fails.
LevelWritesCleared(y, r, q, t, st, out_mean, out_var) ==
    IF st.tag = "Err"
    THEN LevelOutcome(st, ZeroVec(Len(out_mean)), ZeroVec(Len(out_var)), t)
    ELSE IF t >= Len(out_mean)
    THEN LevelOutcome(Panic, out_mean, out_var, t)
    ELSE IF t >= Len(out_var)
    THEN LevelOutcome(Panic, [out_mean EXCEPT ![t + 1] = st.val.x],
                      out_var, t)
    ELSE LevelLoop(y, r, q, t + 1, st.val.x, st.val.p,
                   [out_mean EXCEPT ![t + 1] = st.val.x],
                   [out_var EXCEPT ![t + 1] = st.val.p])

\* The end of iteration t, whose body gave st: an early return, or the two
\* writes (an index out of bounds aborts the call) and the next iteration.
LevelWrites(y, r, q, t, st, out_mean, out_var) ==
    IF st.tag = "Err" THEN LevelOutcome(st, out_mean, out_var, t)
    ELSE IF t >= Len(out_mean)
    THEN LevelOutcome(Panic, out_mean, out_var, t)
    ELSE IF t >= Len(out_var)
    THEN LevelOutcome(Panic, [out_mean EXCEPT ![t + 1] = st.val.x],
                      out_var, t)
    ELSE LevelLoop(y, r, q, t + 1, st.val.x, st.val.p,
                   [out_mean EXCEPT ![t + 1] = st.val.x],
                   [out_var EXCEPT ![t + 1] = st.val.p])

LevelLoop(y, r, q, t, x, p, out_mean, out_var) ==
    IF t = Len(y) THEN LevelOutcome(Ok(Unit), out_mean, out_var, t)
    ELSE LevelWrites(y, r, q, t, LevelStep(y[t + 1], r, q, x, p),
                     out_mean, out_var)

\* The validation gate of the local-level filter: each check returns early.
\* v0 ? v1: the value of v1 unless v0 is an error, which is then returned.
Then(v0, v1) == IF v0.tag = "Err" THEN v0 ELSE v1

LevelValidate(y, r, q, init_mean, init_var, out_mean, out_var) ==
    Then(validate_series(y, out_mean, out_var),
    Then(IF ~is_finite(init_mean)
         THEN Err(InvalidParameter("init_mean", init_mean, "must be finite"))
         ELSE Ok(Unit),
    Then(validate_variance("r", r, FALSE),
    Then(validate_variance("q", q, TRUE),
         validate_variance("init_var", init_var, TRUE)))))

\* A faulty call that runs the recursion before it looks at the gate's verdict.
LevelRunLate(y, r, q, init_mean, init_var, out_mean, out_var, v) ==
    IF v.tag = "Err"
    THEN [LevelLoop(y, r, q, 0, init_mean, init_var, out_mean, out_var)
             EXCEPT !.res = v, !.t = 0]
    ELSE LevelLoop(y, r, q, 0, init_mean, init_var, out_mean, out_var)

\* A faulty call that starts from what the mean buffer holds, when that is
\* finite, in place of init_mean.
LevelRunWarm(y, r, q, init_mean, init_var, out_mean, out_var, v) ==
    IF v.tag = "Err" THEN LevelOutcome(v, out_mean, out_var, 0)
    ELSE LevelLoop(y, r, q, 0,
                   IF is_finite(out_mean[1]) THEN out_mean[1] ELSE init_mean,
                   init_var, out_mean, out_var)

LevelRun(y, r, q, init_mean, init_var, out_mean, out_var, v) ==
    IF v.tag = "Err" THEN LevelOutcome(v, out_mean, out_var, 0)
    ELSE LevelLoop(y, r, q, 0, init_mean, init_var, out_mean, out_var)

kalman_local_level_filter_into(y, r, q, init_mean, init_var, out_mean, out_var) ==
    LevelRun(y, r, q, init_mean, init_var, out_mean, out_var,
             LevelValidate(y, r, q, init_mean, init_var, out_mean, out_var))

\* kalman_local_level_filter_into(..)?; Ok((mean, var))
LevelCollect(c) ==
    IF c.res.tag = "Ok" THEN Ok(<<c.out_mean, c.out_var>>) ELSE c.res

\* A faulty wrapper whose buffers are one element too long.
kalman_local_level_filter_long(y, r, q, init_mean, init_var) ==
    LevelCollect(kalman_local_level_filter_into(
                     y, r, q, init_mean, init_var,
                     ZeroVec(Len(y) + 1), ZeroVec(Len(y) + 1)))

kalman_local_level_filter(y, r, q, init_mean, init_var) ==
    LevelCollect(kalman_local_level_filter_into(
                     y, r, q, init_mean, init_var,
                     ZeroVec(Len(y)), ZeroVec(Len(y))))

\* operation: Some("kalman_local_linear_trend_filter_into".to_string())
TrendOp == "kalman_local_linear_trend_filter_into"

\*     p00 = clamp_small_negative(p00_new)?;
\*     p11 = clamp_small_negative(p11_new)?; p01 = p01_new;
TrendClamped(level, trend, n00, p01_new, n11) ==
    IF n00.tag = "Err" THEN n00
    ELSE IF n11.tag = "Err" THEN n11
    ELSE Ok([level |-> level, trend |-> trend,
             p00 |-> n00.val, p01 |-> p01_new, p11 |-> n11.val])

\*     if !(p00_new.is_finite() && p01_new.is_finite() && p11_new.is_finite())
TrendCovariance(level, trend, p00_new, p01_new, p11_new) ==
    IF ~(is_finite(p00_new) /\ is_finite(p01_new) /\ is_finite(p11_new))
    THEN Err(NumericalError("kalman: non-finite updated covariance", TrendOp))
    ELSE TrendClamped(level, trend, clamp_small_negative(p00_new), p01_new,
                      clamp_small_negative(p11_new))

\* A faulty covariance update whose level noise term is k0 * r, the square
\* lost.
TrendJosephLinear(r, k0, k1, level, trend, one_minus_k0, a00, a01, a10, a11) ==
    TrendCovariance(level, trend,
        FAdd(FMul(a00, one_minus_k0), FMul(k0, r)),
        FAdd(FAdd(FMul(a00, FNeg(k1)), a01), FMul(FMul(k0, k1), r)),
        FAdd(FAdd(FMul(a10, FNeg(k1)), a11), FMul(FMul(k1, k1), r)))

\*     P_tmp = A (I-KH)^T, then += K R K^T
TrendJoseph(r, k0, k1, level, trend, one_minus_k0, a00, a01, a10, a11) ==
    TrendCovariance(level, trend,
        FAdd(FMul(a00, one_minus_k0), FMul(FMul(k0, k0), r)),
        FAdd(FAdd(FMul(a00, FNeg(k1)), a01), FMul(FMul(k0, k1), r)),
        FAdd(FAdd(FMul(a10, FNeg(k1)), a11), FMul(FMul(k1, k1), r)))

\*     A = (I-KH)P^-
TrendProduct(r, p00_pred, p01_pred, p11_pred, k0, k1, level, trend, one_minus_k0) ==
    TrendJoseph(r, k0, k1, level, trend, one_minus_k0,
                FMul(one_minus_k0, p00_pred),
                FMul(one_minus_k0, p01_pred),
                FAdd(FMul(FNeg(k1), p00_pred), p01_pred),
                FAdd(FMul(FNeg(k1), p01_pred), p11_pred))

\*     if !(level.is_finite() && trend.is_finite()) { return Err(..) }
TrendUpdated(r, p00_pred, p01_pred, p11_pred, k0, k1, level, trend) ==
    IF ~(is_finite(level) /\ is_finite(trend))
    THEN Err(NumericalError("kalman: non-finite updated state", TrendOp))
    ELSE TrendProduct(r, p00_pred, p01_pred, p11_pred, k0, k1, level, trend,
                      FSub(F1, k0))

\*     if !innov.is_finite() { return Err(..) }
\*     level = level_pred + k0 * innov; trend = trend_pred + k1 * innov;
TrendInnovation(r, level_pred, trend_pred, p00_pred, p01_pred, p11_pred, k0, k1, innov) ==
    IF ~is_finite(innov)
    THEN Err(NumericalError("kalman: non-finite innovation", TrendOp))
    ELSE TrendUpdated(r, p00_pred, p01_pred, p11_pred, k0, k1,
                      FAdd(level_pred, FMul(k0, innov)),
                      FAdd(trend_pred, FMul(k1, innov)))

\*     if !(k0.is_finite() && k1.is_finite()) { return Err(..) }
\*     let innov = obs - level_pred;
TrendGain(obs, r, level_pred, trend_pred, p00_pred, p01_pred, p11_pred, k0, k1) ==
    IF ~(is_finite(k0) /\ is_finite(k1))
    THEN Err(NumericalError("kalman: non-finite gain", TrendOp))
    ELSE TrendInnovation(r, level_pred, trend_pred, p00_pred, p01_pred,
                         p11_pred, k0, k1, FSub(obs, level_pred))

\*     if !(s.is_finite() && s > 0.0) { return Err(..) }
\*     let k0 = p00_pred / s; let k1 = p01_pred / s;
TrendVariance(obs, r, level_pred, trend_pred, p00_pred, p01_pred, p11_pred, s) ==
    IF ~(is_finite(s) /\ FGt(s, F0))
    THEN Err(NumericalInstability("kalman: invalid innovation variance"))
    ELSE TrendGain(obs, r, level_pred, trend_pred, p00_pred, p01_pred,
                   p11_pred, FDiv(p00_pred, s), FDiv(p01_pred, s))

\*     the two ? of the prediction; if !p01_pred.is_finite() { return Err(..) }
\*     let s = p00_pred + r;
TrendPredicted(obs, r, level_pred, trend_pred, c00, p01_pred, c11) ==
    IF c00.tag = "Err" THEN c00
    ELSE IF c11.tag = "Err" THEN c11
    ELSE IF ~is_finite(p01_pred)
    THEN Err(NumericalError("kalman: non-finite predicted covariance",
                            TrendOp))
    ELSE TrendVariance(obs, r, level_pred, trend_pred, c00.val, p01_pred,
                       c11.val, FAdd(c00.val, r))

\* The body of the local-linear-trend loop up to the writes, one operator for
\* each stretch between two early returns (above, last stretch first): the
\* updated (level, trend, p00, p01, p11), or the error the iteration returns.
TrendStep(obs, r, q_level, q_trend, level, trend, p00, p01, p11) ==
    TrendPredicted(obs, r, FAdd(level, trend), trend,
        clamp_small_negative(
            FAdd(FAdd(FAdd(p00, FMul(F2, p01)), p11), q_level)),
        FAdd(p01, p11),
        clamp_small_negative(FAdd(p11, q_trend)))

\* What a call of the trend filter leaves: its return value, the four buffers
\* (out_level, out_trend, out_var_level, out_var_trend), and t, the index of
\* the iteration it ended in (Len(y) when the loop ran to its end).
TrendOutcome(res, out_level, out_trend, out_var_level, out_var_trend, t) ==
    [res |-> res, out_level |-> out_level, out_trend |-> out_trend,
     out_var_level |-> out_var_level, out_var_trend |-> out_var_trend, t |-> t]

\* The four writes that end an iteration, in order; the first index out of
\* bounds aborts the call with the earlier writes done.
TrendWrites(o, t, v) ==
    LET w1 == [o EXCEPT !.out_level[t + 1] = v.level]
        w2 == [w1 EXCEPT !.out_trend[t + 1] = v.trend]
        w3 == [w2 EXCEPT !.out_var_level[t + 1] = v.p00]
        w4 == [w3 EXCEPT !.out_var_trend[t + 1] = v.p11]
    IN  IF t >= Len(o.out_level) THEN [o EXCEPT !.res = Panic]
        ELSE IF t >= Len(o.out_trend) THEN [w1 EXCEPT !.res = Panic]
        ELSE IF t >= Len(o.out_var_level) THEN [w2 EXCEPT !.res = Panic]
        ELSE IF t >= Len(o.out_var_trend) THEN [w3 EXCEPT !.res = Panic]
        ELSE w4

\* for (t, &obs) in y.iter().enumerate() { ... }; o holds the buffers.
RECURSIVE TrendLoop(_, _, _, _, _, _, _)
\* After the writes w of iteration t: the abort, or the next iteration.
TrendWritten(y, r, q_level, q_trend, t, v, w) ==
    IF w.res = Panic THEN w
    ELSE TrendLoop(y, r, q_level, q_trend, t + 1, v, w)

\* The end of iteration t, whose body gave st: an early return, or the writes.
TrendIterated(y, r, q_level, q_trend, t, st, o) ==
    IF st.tag = "Err" THEN [o EXCEPT !.res = st, !.t = t]
    ELSE TrendWritten(y, r, q_level, q_trend, t, st.val,
                      TrendWrites([o EXCEPT !.t = t], t, st.val))

TrendLoop(y, r, q_level, q_trend, t, v, o) ==
    IF t = Len(y) THEN [o EXCEPT !.res = Ok(Unit), !.t = t]
    ELSE TrendIterated(y, r, q_level, q_trend, t,
                       TrendStep(y[t + 1], r, q_level, q_trend,
                                 v.level, v.trend, v.p00, v.p01, v.p11), o)

\* A faulty gate that does not compare the length of out_var_trend.
TrendValidateThree(y, r, q_level, q_trend, init_level, init_trend, init_var_level, init_var_trend, out_level, out_trend, out_var_level, out_var_trend) ==
    IF Len(y) = 0 THEN Err(InsufficientDataAlgo(1, 0))
    ELSE IF \E i \in 1..Len(y) : ~is_finite(y[i])
    THEN Err(InvalidData("kalman: all observations must be finite"))
    ELSE IF \/ Len(out_level) # Len(y)
            \/ Len(out_trend) # Len(y)
            \/ Len(out_var_level) # Len(y)
    THEN Err(InvalidParameter("out", F0,
                              "all output slices must match y length"))
    ELSE IF ~is_finite(init_level) \/ ~is_finite(init_trend)
    THEN Err(InvalidParameter("init_state", F0,
                              "init_level and init_trend must be finite"))
    ELSE Then(validate_variance("r", r, FALSE),
         Then(validate_variance("q_level", q_level, TRUE),
         Then(validate_variance("q_trend", q_trend, TRUE),
         Then(validate_variance("init_var_level", init_var_level, TRUE),
              validate_variance("init_var_trend", init_var_trend, TRUE)))))

\* The validation gate of the trend filter: each check returns early.
TrendValidate(y, r, q_level, q_trend, init_level, init_trend, init_var_level, init_var_trend, out_level, out_trend, out_var_level, out_var_trend) ==
    IF Len(y) = 0 THEN Err(InsufficientDataAlgo(1, 0))
    ELSE IF \E i \in 1..Len(y) : ~is_finite(y[i])
    THEN Err(InvalidData("kalman: all observations must be finite"))
    ELSE IF \/ Len(out_level) # Len(y)
            \/ Len(out_trend) # Len(y)
            \/ Len(out_var_level) # Len(y)
            \/ Len(out_var_trend) # Len(y)
    THEN Err(InvalidParameter("out", F0,
                              "all output slices must match y length"))
    ELSE IF ~is_finite(init_level) \/ ~is_finite(init_trend)
    THEN Err(InvalidParameter("init_state", F0,
                              "init_level and init_trend must be finite"))
    ELSE Then(validate_variance("r", r, FALSE),
         Then(validate_variance("q_level", q_level, TRUE),
         Then(validate_variance("q_trend", q_trend, TRUE),
         Then(validate_variance("init_var_level", init_var_level, TRUE),
              validate_variance("init_var_trend", init_var_trend, TRUE)))))

\* o holds the verdict of the gate and the buffers as supplied.
TrendRun(y, r, q_level, q_trend, init_level, init_trend, init_var_level, init_var_trend, o) ==
    IF o.res.tag = "Err" THEN o
    ELSE TrendLoop(y, r, q_level, q_trend, 0,
                   [level |-> init_level, trend |-> init_trend,
                    p00 |-> init_var_level, p01 |-> F0,
                    p11 |-> init_var_trend], o)

kalman_local_linear_trend_filter_into(y, r, q_level, q_trend, init_level, init_trend, init_var_level, init_var_trend, out_level, out_trend, out_var_level, out_var_trend) ==
    TrendRun(y, r, q_level, q_trend, init_level, init_trend,
             init_var_level, init_var_trend,
             TrendOutcome(
                 TrendValidate(y, r, q_level, q_trend, init_level, init_trend,
                               init_var_level, init_var_trend, out_level,
                               out_trend, out_var_level, out_var_trend),
                 out_level, out_trend, out_var_level, out_var_trend, 0))

\* kalman_local_linear_trend_filter_into(..)?; Ok((level, trend, ..))
TrendCollect(c) ==
    IF c.res.tag = "Ok"
    THEN Ok(<<c.out_level, c.out_trend, c.out_var_level, c.out_var_trend>>)
    ELSE c.res

kalman_local_linear_trend_filter(y, r, q_level, q_trend, init_level, init_trend, init_var_level, init_var_trend) ==
    TrendCollect(kalman_local_linear_trend_filter_into(
                     y, r, q_level, q_trend, init_level, init_trend,
                     init_var_level, init_var_trend,
                     ZeroVec(Len(y)), ZeroVec(Len(y)),
                     ZeroVec(Len(y)), ZeroVec(Len(y))))

(***************************************************************************)
(* The callers.  The crate keeps no state between calls: a call is decided *)
(* by its arguments, the output buffers among them.  The state is the call *)
(* in progress or last returned: the function, its arguments, the buffers  *)
(* as the caller supplied them, and what the call left.                    *)
(***************************************************************************)
VARIABLES
    pc,     \* "idle" (no call made), "returned", or "again" (a second call
            \* on the same buffers has returned)
    fn,     \* the function called
    args,   \* its arguments other than the output buffers
    entry,  \* the output buffers as supplied
    ret,    \* the outcome (Level/TrendOutcome), or the allocating call's value
    prev    \* the call before this one, as [args, entry, ret], or <<>>

vars == <<pc, fn, args, entry, ret, prev>>

\* Longest observation sequence the callers pass.
MaxLen == 2

SeqsUpTo(S, n) == UNION {[1..k -> S] : k \in 0..n}
Filled(n, v) == [i \in 1..n |-> v]

FMAX == Fin(0, <<32767, 32767, 32767, 255>>, EMax)
FHALF == Fin(0, <<32767, 32767, 32767, 255>>, EMax - 1)
PosInf == Inf(0)
NegInf == Inf(1)
NegOne == FNeg(F1)
NegZero == Zero(1)
\* What the callers' buffers hold before a call: 7.5.
Poison == FromInt(15, -1)

\* Values a caller may pass for a variance or a mean.
ScalarVals == {NaN, PosInf, NegInf, NegOne, NegZero, F0, F1}
MeanVals == {F0, NaN, PosInf, NegInf}
TriVals == {NaN, F0, F1}
ObsVals == {F1, FMAX, FNeg(FMAX)}
Lens == 0..(MaxLen + 1)

LevelArg(y, r, q, init_mean, init_var, out_mean, out_var) ==
    [y |-> y, r |-> r, q |-> q, init_mean |-> init_mean, init_var |-> init_var,
     out_mean |-> out_mean, out_var |-> out_var]

\* One observation, every combination of parameter values.
LevelGridArgs ==
    {LevelArg(<<F1>>, r, q, m, v, <<Poison>>, <<Poison>>) :
        r \in ScalarVals, q \in ScalarVals, m \in MeanVals, v \in ScalarVals}

\* Valid parameters up to the largest f64, every observation sequence.
LevelNumArgs ==
    {LevelArg(y, r, q, F0, v, Filled(Len(y), Poison), Filled(Len(y), Poison)) :
        y \in SeqsUpTo(ObsVals, MaxLen), r \in {F1, FHALF},
        q \in {F0, F1, FHALF, FMAX}, v \in {F0, F1, FMAX}}

\* Every pair of buffer lengths, with r valid and invalid.
LevelLenArgs ==
    {LevelArg(y, r, F0, F0, F1, Filled(lm, Poison), Filled(lv, Poison)) :
        y \in SeqsUpTo({F1, NaN}, MaxLen), r \in {F1, F0},
        lm \in Lens, lv \in Lens}

LevelArgs == LevelGridArgs \cup LevelNumArgs \cup LevelLenArgs

TrendArg(y, r, q_level, q_trend, init_level, init_trend, init_var_level, init_var_trend, l1, l2, l3, l4) ==
    [y |-> y, r |-> r, q_level |-> q_level, q_trend |-> q_trend,
     init_level |-> init_level, init_trend |-> init_trend,
     init_var_level |-> init_var_level, init_var_trend |-> init_var_trend,
     out_level |-> Filled(l1, Poison), out_trend |-> Filled(l2, Poison),
     out_var_level |-> Filled(l3, Poison), out_var_trend |-> Filled(l4, Poison)]

\* One observation; every combination of a bad, a zero and a positive value,
\* and every special value in each position with the others valid.
TrendGridArgs ==
    {TrendArg(<<F1>>, r, ql, qt, il, it, vl, vt, 1, 1, 1, 1) :
        r \in TriVals, ql \in TriVals, qt \in TriVals, il \in {F0, NaN},
        it \in {F0, NaN}, vl \in TriVals, vt \in TriVals}
    \cup {TrendArg(<<F1>>, x, F0, F0, F0, F0, F1, F1, 1, 1, 1, 1) :
              x \in ScalarVals}
    \cup {TrendArg(<<F1>>, F1, x, F0, F0, F0, F1, F1, 1, 1, 1, 1) :
              x \in ScalarVals}
    \cup {TrendArg(<<F1>>, F1, F0, x, F0, F0, F1, F1, 1, 1, 1, 1) :
              x \in ScalarVals}
    \cup {TrendArg(<<F1>>, F1, F0, F0, x, F0, F1, F1, 1, 1, 1, 1) :
              x \in MeanVals}
    \cup {TrendArg(<<F1>>, F1, F0, F0, F0, x, F1, F1, 1, 1, 1, 1) :
              x \in MeanVals}
    \cup {TrendArg(<<F1>>, F1, F0, F0, F0, F0, x, F1, 1, 1, 1, 1) :
              x \in ScalarVals}
    \cup {TrendArg(<<F1>>, F1, F0, F0, F0, F0, F1, x, 1, 1, 1, 1) :
              x \in ScalarVals}

TrendNumArgs ==
    {TrendArg(y, r, F0, qt, F0, F0, vl, vt, Len(y), Len(y), Len(y), Len(y)) :
        y \in SeqsUpTo(ObsVals, MaxLen), r \in {F1, FHALF},
        qt \in {F0, FMAX}, vl \in {F0, F1}, vt \in {F1, FMAX}}

\* All four buffers of one length, and each buffer alone of another length
\* than the observations.
TrendLenArgs ==
    {TrendArg(y, r, F0, F0, F0, F0, F1, F1, l, l, l, l) :
        y \in SeqsUpTo({F1, NaN}, MaxLen), r \in {F1, F0}, l \in Lens}
    \cup {TrendArg(y, F1, F0, F0, F0, F0, F1, F1, l, Len(y), Len(y), Len(y)) :
              y \in SeqsUpTo({F1, NaN}, MaxLen), l \in Lens}
    \cup {TrendArg(y, F1, F0, F0, F0, F0, F1, F1, Len(y), l, Len(y), Len(y)) :
              y \in SeqsUpTo({F1, NaN}, MaxLen), l \in Lens}
    \cup {TrendArg(y, F1, F0, F0, F0, F0, F1, F1, Len(y), Len(y), l, Len(y)) :
              y \in SeqsUpTo({F1, NaN}, MaxLen), l \in Lens}
    \cup {TrendArg(y, F1, F0, F0, F0, F0, F1, F1, Len(y), Len(y), Len(y), l) :
              y \in SeqsUpTo({F1, NaN}, MaxLen), l \in Lens}

TrendArgs == TrendGridArgs \cup TrendNumArgs \cup TrendLenArgs

LevelScalars(a) ==
    [y |-> a.y, r |-> a.r, q |-> a.q, init_mean |-> a.init_mean,
     init_var |-> a.init_var]
LevelBufs(a) == [out_mean |-> a.out_mean, out_var |-> a.out_var]

TrendScalars(a) ==
    [y |-> a.y, r |-> a.r, q_level |-> a.q_level, q_trend |-> a.q_trend,
     init_level |-> a.init_level, init_trend |-> a.init_trend,
     init_var_level |-> a.init_var_level, init_var_trend |-> a.init_var_trend]
TrendBufs(a) ==
    [out_level |-> a.out_level, out_trend |-> a.out_trend,
     out_var_level |-> a.out_var_level, out_var_trend |-> a.out_var_trend]

\* The in-place calls on an argument record.
RunLevelInto(a, b) ==
    kalman_local_level_filter_into(a.y, a.r, a.q, a.init_mean, a.init_var,
                                   b.out_mean, b.out_var)
RunTrendInto(a, b) ==
    kalman_local_linear_trend_filter_into(
        a.y, a.r, a.q_level, a.q_trend, a.init_level, a.init_trend,
        a.init_var_level, a.init_var_trend,
        b.out_level, b.out_trend, b.out_var_level, b.out_var_trend)

Init ==
    /\ pc = "idle"
    /\ fn = "none"
    /\ args = <<>>
    /\ entry = <<>>
    /\ ret = <<>>
    /\ prev = <<>>

CallLevelInto ==
    /\ pc = "idle"
    /\ \E a \in LevelArgs :
        /\ fn' = "kalman_local_level_filter_into"
        /\ args' = LevelScalars(a)
        /\ entry' = LevelBufs(a)
        /\ ret' = RunLevelInto(a, a)
    /\ pc' = "returned"
    /\ UNCHANGED prev

CallLevel ==
    /\ pc = "idle"
    /\ \E a \in LevelGridArgs \cup LevelNumArgs :
        /\ fn' = "kalman_local_level_filter"
        /\ args' = LevelScalars(a)
        /\ entry' = <<>>
        /\ ret' = kalman_local_level_filter(a.y, a.r, a.q, a.init_mean,
                                            a.init_var)
    /\ pc' = "returned"
    /\ UNCHANGED prev

CallTrendInto ==
    /\ pc = "idle"
    /\ \E a \in TrendArgs :
        /\ fn' = "kalman_local_linear_trend_filter_into"
        /\ args' = TrendScalars(a)
        /\ entry' = TrendBufs(a)
        /\ ret' = RunTrendInto(a, a)
    /\ pc' = "returned"
    /\ UNCHANGED prev

CallTrend ==
    /\ pc = "idle"
    /\ \E a \in TrendGridArgs \cup TrendNumArgs :
        /\ fn' = "kalman_local_linear_trend_filter"
        /\ args' = TrendScalars(a)
        /\ entry' = <<>>
        /\ ret' = kalman_local_linear_trend_filter(
                      a.y, a.r, a.q_level, a.q_trend, a.init_level,
                      a.init_trend, a.init_var_level, a.init_var_trend)
    /\ pc' = "returned"
    /\ UNCHANGED prev

\* The caller drops the result; the crate has kept nothing.
Return ==
    /\ pc \in {"returned", "again"}
    /\ pc' = "idle"
    /\ fn' = "none"
    /\ args' = <<>>
    /\ entry' = <<>>
    /\ ret' = <<>>
    /\ prev' = <<>>

Next == CallLevelInto \/ CallLevel \/ CallTrendInto \/ CallTrend \/ Return

Spec == Init /\ [][Next]_vars

(***************************************************************************)
(* Two calls in a row.  The caller calls an in-place filter, then calls it *)
(* again with the same parameters, other observations, and the buffers as  *)
(* the first call left them, cut or extended to the new length.            *)
(***************************************************************************)
PairObs == {F1, F2}

\* Observation sequences of the two calls; the last makes the local-level
\* filter fail at its second step.
PairSeqs == SeqsUpTo(PairObs, MaxLen) \cup {<<FMAX, FNeg(FMAX)>>}

PairLevelArgs ==
    {LevelArg(y, F1, q, m, F1, Filled(Len(y), Poison), Filled(Len(y), Poison)) :
        y \in PairSeqs, q \in {F0, F1}, m \in {F0, F1}}

PairTrendArgs ==
    {TrendArg(y, F1, ql, F0, F0, it, F1, F1, Len(y), Len(y), Len(y), Len(y)) :
        y \in PairSeqs, ql \in {F0, F1}, it \in {F0, F1}}

\* The buffer buf cut or extended to n elements, new elements holding -1.
Resize(buf, n) == [i \in 1..n |-> IF i <= Len(buf) THEN buf[i] ELSE NegOne]

FirstLevelInto ==
    /\ pc = "idle"
    /\ \E a \in PairLevelArgs :
        /\ fn' = "kalman_local_level_filter_into"
        /\ args' = LevelScalars(a)
        /\ entry' = LevelBufs(a)
        /\ ret' = RunLevelInto(a, a)
    /\ pc' = "returned"
    /\ UNCHANGED prev

FirstTrendInto ==
    /\ pc = "idle"
    /\ \E a \in PairTrendArgs :
        /\ fn' = "kalman_local_linear_trend_filter_into"
        /\ args' = TrendScalars(a)
        /\ entry' = TrendBufs(a)
        /\ ret' = RunTrendInto(a, a)
    /\ pc' = "returned"
    /\ UNCHANGED prev

SecondLevelInto ==
    /\ pc = "returned"
    /\ fn = "kalman_local_level_filter_into"
    /\ \E y \in PairSeqs :
        /\ args' = [args EXCEPT !.y = y]
        /\ entry' = [out_mean |-> Resize(ret.out_mean, Len(y)),
                     out_var |-> Resize(ret.out_var, Len(y))]
    /\ ret' = RunLevelInto(args', entry')
    /\ prev' = [args |-> args, entry |-> entry, ret |-> ret]
    /\ pc' = "again"
    /\ UNCHANGED fn

SecondTrendInto ==
    /\ pc = "returned"
    /\ fn = "kalman_local_linear_trend_filter_into"
    /\ \E y \in PairSeqs :
        /\ args' = [args EXCEPT !.y = y]
        /\ entry' = [out_level |-> Resize(ret.out_level, Len(y)),
                     out_trend |-> Resize(ret.out_trend, Len(y)),
                     out_var_level |-> Resize(ret.out_var_level, Len(y)),
                     out_var_trend |-> Resize(ret.out_var_trend, Len(y))]
    /\ ret' = RunTrendInto(args', entry')
    /\ prev' = [args |-> args, entry |-> entry, ret |-> ret]
    /\ pc' = "again"
    /\ UNCHANGED fn

NextPair ==
    \/ FirstLevelInto
    \/ FirstTrendInto
    \/ SecondLevelInto
    \/ SecondTrendInto
    \/ Return

SpecPair == Init /\ [][NextPair]_vars

(***************************************************************************)
(* Calls of the local-level filter without process noise (q = 0), over     *)
(* observation noises and initial variances from the smallest subnormal to *)
(* the largest f64.                                                        *)
(***************************************************************************)
\* Longest observation sequence of these calls.
VarLen == 3

F3 == FromInt(3, 0)
\* 2^-1074 and 3 * 2^-1074, subnormal.
FTiny == Fin(0, <<1>>, EMin)
FTiny3 == Fin(0, <<3>>, EMin)
\* 2 - 2^-52 and 2^55 - 4: the gain of the first over the second is 2^-54,
\* where 1 - k ties.
FBelow2 == Fin(0, <<32767, 32767, 32767, 255>>, -52)
FBelow55 == Fin(0, <<32767, 32767, 32767, 255>>, 2)

VarNoises == {F1, F3, FTiny, FBelow55, FHALF}
VarInits == {F0, F1, F3, FTiny3, FBelow2, FMAX}
VarSeqs == SeqsUpTo({F1, FNeg(F3)}, VarLen) \ {<<>>}

VarLevelArgs ==
    {LevelArg(y, r, F0, F0, v, Filled(Len(y), Poison), Filled(Len(y), Poison)) :
        y \in VarSeqs, r \in VarNoises, v \in VarInits}
    \cup {LevelArg(y, F1, NegZero, F1, F3, Filled(Len(y), Poison),
                    Filled(Len(y), Poison)) : y \in VarSeqs}

VarCallLevelInto ==
    /\ pc = "idle"
    /\ \E a \in VarLevelArgs :
        /\ fn' = "kalman_local_level_filter_into"
        /\ args' = LevelScalars(a)
        /\ entry' = LevelBufs(a)
        /\ ret' = RunLevelInto(a, a)
    /\ pc' = "returned"
    /\ UNCHANGED prev

VarCallLevel ==
    /\ pc = "idle"
    /\ \E a \in VarLevelArgs :
        /\ fn' = "kalman_local_level_filter"
        /\ args' = LevelScalars(a)
        /\ entry' = <<>>
        /\ ret' = kalman_local_level_filter(a.y, a.r, a.q, a.init_mean,
                                            a.init_var)
    /\ pc' = "returned"
    /\ UNCHANGED prev

NextVar == VarCallLevelInto \/ VarCallLevel \/ Return

SpecVar == Init /\ [][NextVar]_vars

(***************************************************************************)
(* Calls of clamp_small_negative alone, as the two filters call it on a    *)
(* covariance entry: over the f64 values on both sides of 0 and of         *)
(* -TINY_NEG_CLAMP, and the special values.                                *)
(***************************************************************************)
\* Binades on each side of the one of TINY_NEG_CLAMP.
ClampSpread == 5

\* Significands: the one of 1e-15 with its two neighbours, the smallest and
\* the largest of a binade.
ClampMans ==
    {BSub(TINY_NEG_CLAMP.man, One), TINY_NEG_CLAMP.man,
     BAdd(TINY_NEG_CLAMP.man, One), F1.man, FMAX.man}

ClampInputs ==
    {Fin(s, m, TINY_NEG_CLAMP.exp + d) :
        s \in {0, 1}, m \in ClampMans, d \in (0 - ClampSpread)..ClampSpread}
    \cup {F0, NegZero, F1, NegOne, FTiny, FNeg(FTiny), FMAX, FNeg(FMAX),
          PosInf, NegInf, NaN}

\* p = clamp_small_negative(x)?
CallClamp ==
    /\ pc = "idle"
    /\ \E x \in ClampInputs :
        /\ fn' = "clamp_small_negative"
        /\ args' = [x |-> x]
        /\ entry' = <<>>
        /\ ret' = clamp_small_negative(x)
    /\ pc' = "returned"
    /\ UNCHANGED prev

NextClamp == CallClamp \/ Return

SpecClamp == Init /\ [][NextClamp]_vars

(***************************************************************************)
(* Calls of the trend filter with no trend: q_trend = 0, init_trend = 0    *)
(* and init_var_trend = 0, the other parameters those of a local-level     *)
(* call.                                                                   *)
(***************************************************************************)
\* Longest observation sequence of these calls.
FlatLen == 3

FlatSeqs == SeqsUpTo({F1, FNeg(F3)}, FlatLen) \ {<<>>}

\* The trend call that stands for the local-level call (y, r, q, m0, v0).
FlatArg(y, r, q, m0, v0) ==
    TrendArg(y, r, q, F0, m0, F0, v0, F0, Len(y), Len(y), Len(y), Len(y))

\* Small integers: the recursions can be followed in exact arithmetic.
FlatArgs ==
    {FlatArg(y, r, q, m0, v0) :
        y \in FlatSeqs, r \in {F1, F3}, q \in {F0, F1}, m0 \in {F0, F2},
        v0 \in {F0, F1, F3}}

\* From the smallest subnormal to the largest f64.
FlatWideArgs ==
    {FlatArg(y, r, q, F0, v0) :
        y \in SeqsUpTo(ObsVals, MaxLen) \ {<<>>}, r \in {FTiny, FHALF},
        q \in {F0, FMAX}, v0 \in {FTiny3, FMAX}}

CallFlatTrendInto ==
    /\ pc = "idle"
    /\ \E a \in FlatArgs \cup FlatWideArgs :
        /\ fn' = "kalman_local_linear_trend_filter_into"
        /\ args' = TrendScalars(a)
        /\ entry' = TrendBufs(a)
        /\ ret' = RunTrendInto(a, a)
    /\ pc' = "returned"
    /\ UNCHANGED prev

NextFlat == CallFlatTrendInto \/ Return

SpecFlat == Init /\ [][NextFlat]_vars

(***************************************************************************)
(* Exact arithmetic.  A rational is num / den in lowest terms with den > 0, *)
(* so that equal rationals are equal records.  num and den are integers of *)
(* TLC, which stops with an error when one overflows.                      *)
(***************************************************************************)
Abs(n) == IF n < 0 THEN 0 - n ELSE n

\* The greatest common divisor of a >= 0 and b >= 0, not both zero.
RECURSIVE Gcd(_, _)
Gcd(a, b) == IF b = 0 THEN a ELSE Gcd(b, a % b)

QLowest(n, d, g) == [num |-> n \div g, den |-> d \div g]

\* n / d for d > 0
Q(n, d) == QLowest(n, d, Gcd(Abs(n), d))

QZero == Q(0, 1)
QOne == Q(1, 1)

QNeg(a) == [a EXCEPT !.num = 0 - a.num]

\* a + b, with g the greatest common divisor of the denominators
QSum(a, b, g) ==
    Q(a.num * (b.den \div g) + b.num * (a.den \div g), (a.den \div g) * b.den)

QAdd(a, b) == QSum(a, b, Gcd(a.den, b.den))

QSub(a, b) == QAdd(a, QNeg(b))

\* a * b, with g the greatest common divisor of a's numerator and b's
\* denominator and h that of b's numerator and a's denominator
QProduct(a, b, g, h) ==
    [num |-> (a.num \div g) * (b.num \div h),
     den |-> (a.den \div h) * (b.den \div g)]

QMul(a, b) == QProduct(a, b, Gcd(Abs(a.num), b.den), Gcd(Abs(b.num), a.den))

\* 1 / b for b # 0
QInv(b) ==
    IF b.num > 0 THEN [num |-> b.den, den |-> b.num]
    ELSE [num |-> 0 - b.den, den |-> 0 - b.num]

QDiv(a, b) == QMul(a, QInv(b))

QGe0(a) == a.num >= 0
QGt0(a) == a.num > 0

\* The natural number a, a limb sequence.
RECURSIVE BToInt(_)
BToInt(a) == IF a = <<>> THEN 0 ELSE Head(a) + Base * BToInt(Tail(a))

\* The number of zero bits below the lowest one bit of n > 0, of a # 0.
RECURSIVE IntTrailing(_)
IntTrailing(n) == IF n % 2 = 1 THEN 0 ELSE 1 + IntTrailing(n \div 2)

RECURSIVE BTrailing(_)
BTrailing(a) ==
    IF Head(a) = 0 THEN LimbBits + BTrailing(Tail(a))
    ELSE IntTrailing(Head(a))

\* man * 2^exp for exp < 0 and man # 0, k bits of man cancelled against
\* the denominator.
QDyadic(s, man, exp, k) ==
    Q((IF s = 1 THEN -1 ELSE 1) * BToInt(BShr(man, k).q), Pow2(0 - exp - k))

Least(m, n) == IF m < n THEN m ELSE n

\* The rational a finite f64 is.
QOf(x) ==
    IF x.man = BZero THEN QZero
    ELSE IF x.exp >= 0
    THEN Q((IF x.sgn = 1 THEN -1 ELSE 1) * BToInt(BShl(x.man, x.exp)), 1)
    ELSE QDyadic(x.sgn, x.man, x.exp, Least(BTrailing(x.man), 0 - x.exp))

\* 0 > x >= -1e-15, the f64 TINY_NEG_CLAMP being man * 2^exp with exp < 0:
\* -num * 2^-exp <= man * den
QTinyNegative(x) ==
    /\ x.num < 0
    /\ BCmp(BShl(BFromInt(0 - x.num), 0 - TINY_NEG_CLAMP.exp),
            BMul(TINY_NEG_CLAMP.man, BFromInt(x.den))) <= 0

(***************************************************************************)
(* The two recursions in exact arithmetic.  These definitions are not the  *)
(* program: the program computes on f64 (LevelStep, TrendStep above), it   *)
(* rounds after every + - * / and tests is_finite where a result can       *)
(* overflow.  Here the formulas of the two loop bodies of                  *)
(* src/src/kalman.rs are read over the rationals, where nothing rounds and *)
(* every value is finite.  What is shown through them holds in exact       *)
(* arithmetic, not for the f64 values the program returns.                 *)
(***************************************************************************)
\* The three cases of clamp_small_negative on a rational.
ClampExact(x) ==
    IF QGe0(x) THEN Ok(x)
    ELSE IF QTinyNegative(x) THEN Ok(QZero)
    ELSE Err(NumericalInstability("kalman: covariance became negative"))

\* The formulas of one iteration of the local-level loop, unrounded; the
\* two is_finite tests of the program have no counterpart.
LevelStepExact(obs, r, q, x, p) ==
    LET c1 == ClampExact(QAdd(p, q))
        p_pred == c1.val
        s == QAdd(p_pred, r)
        k == QDiv(p_pred, s)
        innov == QSub(obs, x)
        x_new == QAdd(x, QMul(k, innov))
        one_minus_k == QSub(QOne, k)
        p_upd == QAdd(QMul(QMul(one_minus_k, one_minus_k), p_pred),
                      QMul(QMul(k, k), r))
        c2 == ClampExact(p_upd)
    IN  IF c1.tag = "Err" THEN c1
        ELSE IF ~QGt0(s)
        THEN Err(NumericalInstability("kalman: invalid innovation variance"))
        ELSE IF c2.tag = "Err" THEN c2
        ELSE Ok([x |-> x_new, p |-> c2.val])

\* The formula of p00_new, a00 * one_minus_k0 + (k0 * k0) * r, unrounded.
TrendJosephExact(a00, one_minus_k0, k0, r) ==
    QAdd(QMul(a00, one_minus_k0), QMul(QMul(k0, k0), r))

\* The formulas of one iteration of the trend loop, unrounded; the six
\* is_finite tests of the program have no counterpart.
TrendStepExact(obs, r, q_level, q_trend, level, trend, p00, p01, p11) ==
    LET two == QAdd(QOne, QOne)
        level_pred == QAdd(level, trend)
        trend_pred == trend
        c00 == ClampExact(QAdd(QAdd(QAdd(p00, QMul(two, p01)), p11), q_level))
        p00_pred == c00.val
        p01_pred == QAdd(p01, p11)
        c11 == ClampExact(QAdd(p11, q_trend))
        p11_pred == c11.val
        s == QAdd(p00_pred, r)
        k0 == QDiv(p00_pred, s)
        k1 == QDiv(p01_pred, s)
        innov == QSub(obs, level_pred)
        one_minus_k0 == QSub(QOne, k0)
        a00 == QMul(one_minus_k0, p00_pred)
        a01 == QMul(one_minus_k0, p01_pred)
        a10 == QAdd(QMul(QNeg(k1), p00_pred), p01_pred)
        a11 == QAdd(QMul(QNeg(k1), p01_pred), p11_pred)
        p00_new == TrendJosephExact(a00, one_minus_k0, k0, r)
        p01_new == QAdd(QAdd(QMul(a00, QNeg(k1)), a01), QMul(QMul(k0, k1), r))
        p11_new == QAdd(QAdd(QMul(a10, QNeg(k1)), a11), QMul(QMul(k1, k1), r))
        n00 == ClampExact(p00_new)
        n11 == ClampExact(p11_new)
    IN  IF c00.tag = "Err" THEN c00
        ELSE IF c11.tag = "Err" THEN c11
        ELSE IF ~QGt0(s)
        THEN Err(NumericalInstability("kalman: invalid innovation variance"))
        ELSE IF n00.tag = "Err" THEN n00
        ELSE IF n11.tag = "Err" THEN n11
        ELSE Ok([level |-> QAdd(level_pred, QMul(k0, innov)),
                 trend |-> QAdd(trend_pred, QMul(k1, innov)),
                 p00 |-> n00.val, p01 |-> p01_new, p11 |-> n11.val])

\* The unrounded iterations of the local-level loop from state (x, p) over
\* the observations y: what each one left, up to and with the first failure.
RECURSIVE LevelLoopExact(_, _, _, _, _)
LevelLoopExact(y, r, q, x, p) ==
    IF y = <<>> THEN <<>>
    ELSE LET st == LevelStepExact(Head(y), r, q, x, p)
         IN  IF st.tag = "Err" THEN <<st>>
             ELSE <<st>> \o LevelLoopExact(Tail(y), r, q, st.val.x, st.val.p)

\* The unrounded iterations of the trend loop from state v over the
\* observations y.
RECURSIVE TrendLoopExact(_, _, _, _, _)
TrendLoopExact(y, r, q_level, q_trend, v) ==
    IF y = <<>> THEN <<>>
    ELSE LET st == TrendStepExact(Head(y), r, q_level, q_trend,
                                  v.level, v.trend, v.p00, v.p01, v.p11)
         IN  IF st.tag = "Err" THEN <<st>>
             ELSE <<st>> \o TrendLoopExact(Tail(y), r, q_level, q_trend, st.val)

\* The observations as rationals.
QSeq(y) == [i \in 1..Len(y) |-> QOf(y[i])]

\* The unrounded local-level recursion from the exact values of the f64
\* arguments.
LevelRunExact(y, r, q, init_mean, init_var) ==
    LevelLoopExact(QSeq(y), QOf(r), QOf(q), QOf(init_mean), QOf(init_var))

\* The unrounded trend recursion from the exact values of the f64
\* arguments, p01 starting at 0.
TrendRunExact(y, r, q_level, q_trend, init_level, init_trend, init_var_level, init_var_trend) ==
    TrendLoopExact(QSeq(y), QOf(r), QOf(q_level), QOf(q_trend),
                   [level |-> QOf(init_level), trend |-> QOf(init_trend),
                    p00 |-> QOf(init_var_level), p01 |-> QZero,
                    p11 |-> QOf(init_var_trend)])

(***************************************************************************)
(* Properties of a single call (specification Spec).                       *)
(***************************************************************************)
LevelInto == "kalman_local_level_filter_into"
TrendInto == "kalman_local_linear_trend_filter_into"
LevelAlloc == "kalman_local_level_filter"
TrendAlloc == "kalman_local_linear_trend_filter"

Returned(f) == pc = "returned" /\ fn = f

ValidationKinds == {"InsufficientDataAlgo", "InvalidData", "InvalidParameter"}
NumericalKinds == {"NumericalError", "NumericalInstability"}

Failed(res, kinds) == res.tag = "Err" /\ res.err.kind \in kinds

\* The gate let the call through: it succeeded, or failed in the recursion.
GatePassed(res) == res.tag = "Ok" \/ Failed(res, NumericalKinds)

\* The value the call returned.
Result == IF fn \in {LevelInto, TrendInto} THEN ret.res ELSE ret

LevelBufNames == {"out_mean", "out_var"}
TrendBufNames == {"out_level", "out_trend", "out_var_level", "out_var_trend"}
BufNames == IF fn = LevelInto THEN LevelBufNames ELSE TrendBufNames

\* Some caller-supplied buffer is not as long as the observations.
Mismatch == \E b \in BufNames : Len(entry[b]) # Len(args.y)

AllFinite(y) == \A i \in 1..Len(y) : y[i].cls = "fin"

\* C1: when an in-place filter returns a validation error
\* (InsufficientDataAlgo, InvalidData or InvalidParameter), every output
\* buffer is exactly as the caller supplied it.
C1_ValidationErrorWritesNothing ==
    /\ (Returned(LevelInto) /\ Failed(ret.res, ValidationKinds))
           => LevelBufs(ret) = entry
    /\ (Returned(TrendInto) /\ Failed(ret.res, ValidationKinds))
           => TrendBufs(ret) = entry

\* The trend filter rejected its last-checked parameter, init_var_trend, and
\* its four one-element buffers are as supplied.
C1_Witness ==
    /\ Returned(TrendInto)
    /\ Failed(ret.res, {"InvalidParameter"})
    /\ ret.res.err.parameter = "init_var_trend"
    /\ Len(entry.out_var_trend) = 1
    /\ TrendBufs(ret) = entry

\* The in-place filters on the first n observations of the call, with buffers
\* of length n that hold zeros.
LevelPrefixRun(n) ==
    RunLevelInto([args EXCEPT !.y = SubSeq(args.y, 1, n)],
                 [out_mean |-> ZeroVec(n), out_var |-> ZeroVec(n)])

TrendPrefixRun(n) ==
    RunTrendInto([args EXCEPT !.y = SubSeq(args.y, 1, n)],
                 [out_level |-> ZeroVec(n), out_trend |-> ZeroVec(n),
                  out_var_level |-> ZeroVec(n), out_var_trend |-> ZeroVec(n)])

\* Buffer b of the outcome holds the results of ref below index t (0-based)
\* and the caller's contents from t on.
PrefixWritten(b, t, ref) ==
    /\ Len(ret[b]) = Len(args.y)
    /\ \A i \in 1..Len(args.y) :
           ret[b][i] = IF i <= t THEN ref[b][i] ELSE entry[b][i]

\* C2: when the recursion of an in-place filter fails with NumericalError or
\* NumericalInstability at step t, the steps before t succeed and step t is
\* the one that fails, and every output buffer holds the filtered results of
\* steps 0..t-1 at indices 0..t-1 and the caller's contents at indices
\* t..n-1; in the trend filter the four buffers have the same written prefix.
C2_PartialPrefixOnNumericalFailure ==
    /\ (Returned(LevelInto) /\ Failed(ret.res, NumericalKinds)) =>
           /\ ret.t \in 0..(Len(args.y) - 1)
           /\ LevelPrefixRun(ret.t + 1).res = ret.res
           /\ ret.t > 0 => LevelPrefixRun(ret.t).res = Ok(Unit)
           /\ \A b \in LevelBufNames :
                  PrefixWritten(b, ret.t, LevelPrefixRun(ret.t))
    /\ (Returned(TrendInto) /\ Failed(ret.res, NumericalKinds)) =>
           /\ ret.t \in 0..(Len(args.y) - 1)
           /\ TrendPrefixRun(ret.t + 1).res = ret.res
           /\ ret.t > 0 => TrendPrefixRun(ret.t).res = Ok(Unit)
           /\ \A b \in TrendBufNames :
                  PrefixWritten(b, ret.t, TrendPrefixRun(ret.t))

\* The trend filter failed at step 1 of 2: index 0 of all four buffers is
\* written, index 1 of all four is as supplied.
C2_Witness ==
    /\ Returned(TrendInto)
    /\ Failed(ret.res, NumericalKinds)
    /\ Len(args.y) = 2
    /\ ret.t = 1
    /\ \A b \in TrendBufNames :
           ret[b][1] # entry[b][1] /\ ret[b][2] = entry[b][2]

\* Finite and >= 0, read off the representation.
NonNegFinite(v) == v.cls = "fin" /\ (v.sgn = 0 \/ v.man = BZero)

\* C3: every value a filter writes to a variance buffer (out_var; out_var_level
\* and out_var_trend) is finite and >= 0, in every call that passes the gate,
\* the steps written before a failure in the recursion included; so is every
\* variance an allocating filter returns.
C3_WrittenVariancesFiniteNonNegative ==
    /\ (Returned(LevelInto) /\ GatePassed(ret.res)) =>
           \A i \in 1..ret.t : NonNegFinite(ret.out_var[i])
    /\ (Returned(TrendInto) /\ GatePassed(ret.res)) =>
           \A i \in 1..ret.t : /\ NonNegFinite(ret.out_var_level[i])
                               /\ NonNegFinite(ret.out_var_trend[i])
    /\ (Returned(LevelAlloc) /\ ret.tag = "Ok") =>
           \A i \in 1..Len(ret.val[2]) : NonNegFinite(ret.val[2][i])
    /\ (Returned(TrendAlloc) /\ ret.tag = "Ok") =>
           \A i \in 1..Len(ret.val[3]) : /\ NonNegFinite(ret.val[3][i])
                                         /\ NonNegFinite(ret.val[4][i])

\* The local-level filter failed at step 1 and left a variance it wrote at
\* step 0, which is positive.
C3_Witness ==
    /\ Returned(LevelInto)
    /\ Failed(ret.res, NumericalKinds)
    /\ ret.t = 1
    /\ ret.out_var[1] # entry.out_var[1]
    /\ NonNegFinite(ret.out_var[1])
    /\ ret.out_var[1].man # BZero

\* C4 as stated: whenever the length of any output buffer differs from the
\* number of observations, the in-place call fails with InvalidParameter.
C4_MismatchIsInvalidParameter ==
    (pc = "returned" /\ fn \in {LevelInto, TrendInto} /\ Mismatch)
        => Failed(ret.res, {"InvalidParameter"})

\* C4, amended: whenever the length of any output buffer differs from the
\* number of observations, the in-place call fails and writes nothing: with
\* InsufficientDataAlgo if there is no observation, with InvalidData if some
\* observation is not finite, and with InvalidParameter otherwise.
C4_MismatchFailsByPrecedence ==
    (pc = "returned" /\ fn \in {LevelInto, TrendInto} /\ Mismatch) =>
        /\ Failed(ret.res,
                  {IF Len(args.y) = 0 THEN "InsufficientDataAlgo"
                   ELSE IF ~AllFinite(args.y) THEN "InvalidData"
                   ELSE "InvalidParameter"})
        /\ \A b \in BufNames : ret[b] = entry[b]

\* The trend filter got finite observations and three buffers of their
\* length, the fourth, out_var_trend, shorter: InvalidParameter.
C4_Witness ==
    /\ Returned(TrendInto)
    /\ Len(args.y) = 2 /\ AllFinite(args.y)
    /\ Len(entry.out_level) = 2 /\ Len(entry.out_trend) = 2
    /\ Len(entry.out_var_level) = 2 /\ Len(entry.out_var_trend) = 1
    /\ Failed(ret.res, {"InvalidParameter"})

\* The error names a parameter of the call and carries the value the call
\* was given for it: a scalar's value, a buffer's length.
CarriesParameter(e) ==
    \/ /\ e.parameter \in (DOMAIN args) \ {"y"}
       /\ e.value = args[e.parameter]
    \/ /\ e.parameter \in DOMAIN entry
       /\ Len(entry[e.parameter]) # Len(args.y)
       /\ e.value = FromInt(Len(entry[e.parameter]), 0)

\* C5 as stated: every InvalidParameter error a filter returns carries the
\* name of the rejected parameter, the offending value of that parameter and
\* the violated constraint.
C5_InvalidParameterCarriesNameAndValue ==
    (pc = "returned" /\ Failed(Result, {"InvalidParameter"})) =>
        /\ CarriesParameter(Result.err)
        /\ Result.err.constraint # ""

\* The parameters other than r are in their domains.
OthersValid ==
    IF fn \in {LevelInto, LevelAlloc}
    THEN NonNegFinite(args.q) /\ NonNegFinite(args.init_var)
    ELSE /\ NonNegFinite(args.q_level) /\ NonNegFinite(args.q_trend)
         /\ NonNegFinite(args.init_var_level)
         /\ NonNegFinite(args.init_var_trend)

\* r is finite and > 0.
RValid == args.r.cls = "fin" /\ args.r.sgn = 0 /\ args.r.man # BZero

MeansFinite ==
    IF fn \in {LevelInto, LevelAlloc} THEN args.init_mean.cls = "fin"
    ELSE args.init_level.cls = "fin" /\ args.init_trend.cls = "fin"

\* Observations, buffers and initial means are acceptable: what remains to
\* the gate is the variances.
GateReachesVariances ==
    /\ pc = "returned"
    /\ Len(args.y) > 0 /\ AllFinite(args.y)
    /\ fn \in {LevelInto, TrendInto} => ~Mismatch
    /\ MeansFinite

\* C6: given a non-empty all-finite observation sequence, buffers of its
\* length and finite initial means, the gate passes if and only if r is
\* finite and > 0 and every process-noise and initial variance is finite and
\* >= 0; otherwise the call fails with InvalidParameter.
C6_GatePassesIffVariancesInDomain ==
    GateReachesVariances =>
        /\ GatePassed(Result) <=> (RValid /\ OthersValid)
        /\ ~(RValid /\ OthersValid) => Failed(Result, {"InvalidParameter"})

\* The trend filter refused r = 0 though its process-noise and initial
\* variances, all zero, are acceptable.
C6_Witness ==
    /\ GateReachesVariances
    /\ fn = TrendInto
    /\ args.r = F0
    /\ args.q_level = F0 /\ args.q_trend = F0
    /\ args.init_var_level = F0 /\ args.init_var_trend = F0
    /\ Failed(ret.res, {"InvalidParameter"})
    /\ ret.res.err.parameter = "r"

ErrorKinds == ValidationKinds \cup NumericalKinds

\* C7: no call of an in-place filter aborts on an index out of bounds: it
\* returns success or an error of one of the five kinds, whatever the
\* observation count, the buffer lengths and the parameter values.
C7_InPlaceCallsReturn ==
    (pc = "returned" /\ fn \in {LevelInto, TrendInto}) =>
        /\ ret.res # Panic
        /\ ret.res.tag = "Ok" \/ Failed(ret.res, ErrorKinds)

\* The local-level filter got two finite observations, valid parameters and a
\* variance buffer too short for the second write, and returned an error.
C7_Witness ==
    /\ Returned(LevelInto)
    /\ Len(args.y) = 2 /\ AllFinite(args.y)
    /\ RValid /\ OthersValid /\ MeansFinite
    /\ Len(entry.out_mean) = 2 /\ Len(entry.out_var) = 1
    /\ Failed(ret.res, ErrorKinds)

\* The in-place counterparts of the allocating call, on buffers of the
\* observations' length that hold v.
LevelIntoFresh(v) ==
    RunLevelInto(args, [out_mean |-> Filled(Len(args.y), v),
                        out_var |-> Filled(Len(args.y), v)])

TrendIntoFresh(v) ==
    RunTrendInto(args, [out_level |-> Filled(Len(args.y), v),
                        out_trend |-> Filled(Len(args.y), v),
                        out_var_level |-> Filled(Len(args.y), v),
                        out_var_trend |-> Filled(Len(args.y), v)])

\* The allocating call's value r against the in-place outcome c, whose
\* buffers in order are bufs.
SameAsInPlace(r, c, bufs) ==
    /\ (r.tag = "Ok") <=> (c.res.tag = "Ok")
    /\ r.tag = "Ok" =>
           /\ \A i \in 1..Len(bufs) : Len(r.val[i]) = Len(args.y)
           /\ r.val = bufs
    /\ r.tag # "Ok" =>
           /\ r.tag = "Err" /\ c.res.tag = "Err"
           /\ r.err.kind = c.res.err.kind
           /\ ~(r.err.kind = "InvalidParameter" /\ r.err.parameter = "out")
    /\ Len(args.y) = 0 => r = Err(InsufficientDataAlgo(1, 0))

LevelSame(r, c) == SameAsInPlace(r, c, <<c.out_mean, c.out_var>>)

TrendSame(r, c) ==
    SameAsInPlace(r, c, <<c.out_level, c.out_trend, c.out_var_level,
                          c.out_var_trend>>)

\* C9: each allocating filter returns success exactly when its in-place
\* counterpart does on fresh buffers of the observations' length, whatever
\* they hold; the sequences it returns have that length and are what the
\* in-place filter writes; on failure it returns an error of the same kind,
\* never a buffer-length mismatch, and InsufficientDataAlgo (1, 0) when there
\* is no observation.
C9_AllocatingEqualsInPlace ==
    /\ Returned(LevelAlloc) =>
           /\ LevelSame(ret, LevelIntoFresh(F0))
           /\ LevelSame(ret, LevelIntoFresh(Poison))
    /\ Returned(TrendAlloc) =>
           /\ TrendSame(ret, TrendIntoFresh(F0))
           /\ TrendSame(ret, TrendIntoFresh(Poison))

\* The allocating trend filter returned four sequences of two elements.
C9_Witness ==
    /\ Returned(TrendAlloc)
    /\ Len(args.y) = 2
    /\ ret.tag = "Ok"
    /\ \A i \in 1..4 : Len(ret.val[i]) = 2
    /\ ret.val[1] # ZeroVec(2)

(***************************************************************************)
(* Properties of two calls in a row (specification SpecPair).              *)
(***************************************************************************)
\* The two observation sequences agree on their first t elements.
AgreeTo(y1, y2, t) ==
    t <= Len(y1) /\ t <= Len(y2) /\ SubSeq(y1, 1, t) = SubSeq(y2, 1, t)

\* The second call of a pair has returned; both calls succeeded, on the same
\* parameters.
BothSucceeded ==
    /\ pc = "again"
    /\ prev.ret.res.tag = "Ok" /\ ret.res.tag = "Ok"
    /\ [prev.args EXCEPT !.y = <<>>] = [args EXCEPT !.y = <<>>]

\* The second call on buffers that hold v.
AgainOnFresh(v) ==
    IF fn = LevelInto
    THEN LevelBufs(RunLevelInto(args, [b \in LevelBufNames |->
                                           Filled(Len(args.y), v)]))
    ELSE TrendBufs(RunTrendInto(args, [b \in TrendBufNames |->
                                           Filled(Len(args.y), v)]))

\* C8: for two successful calls of the same in-place filter with the same
\* parameters whose observations agree on indices 0..t, every output buffer
\* holds the same values at indices 0..t after both calls, whatever the
\* later observations, the contents of the buffers before the call and the
\* call made before; the second call leaves what it leaves on buffers that
\* held zeros.
C8_CausalAndDeterministic ==
    BothSucceeded =>
        /\ \A t \in 1..Len(args.y) :
               AgreeTo(prev.args.y, args.y, t) =>
                   \A b \in BufNames :
                       SubSeq(prev.ret[b], 1, t) = SubSeq(ret[b], 1, t)
        /\ \A b \in BufNames : ret[b] = AgainOnFresh(F0)[b]

\* Two successful calls of the trend filter whose two observations agree on
\* the first and differ on the second; the second call's buffers held the
\* first call's results; the level estimates agree at index 0 and differ at
\* index 1.
C8_Witness ==
    /\ BothSucceeded
    /\ fn = TrendInto
    /\ Len(args.y) = 2 /\ Len(prev.args.y) = 2
    /\ args.y[1] = prev.args.y[1] /\ args.y[2] # prev.args.y[2]
    /\ entry # prev.entry
    /\ ret.out_level[1] = prev.ret.out_level[1]
    /\ ret.out_level[2] # prev.ret.out_level[2]

(***************************************************************************)
(* Properties of the local-level filter without process noise              *)
(* (specification SpecVar).                                                *)
(***************************************************************************)
\* The variances the call wrote or returned, when it succeeded with q = 0.
QuietVariances ==
    IF pc = "returned" /\ IsZero(args.q) /\ Result.tag = "Ok"
    THEN (IF fn = LevelInto THEN ret.out_var ELSE ret.val[2])
    ELSE <<>>

\* The variances of the same call on observations that are all zero.
VariancesOnZeros ==
    RunLevelInto([args EXCEPT !.y = ZeroVec(Len(args.y))],
                 [out_mean |-> ZeroVec(Len(args.y)),
                  out_var |-> ZeroVec(Len(args.y))]).out_var

\* C10: in a successful call of the local-level filter with q = 0, the
\* variances are non-increasing, out_var[0] <= init_var and
\* out_var[t] <= out_var[t-1] for t >= 1, and they are the variances of the
\* same call on any other observations.
C10_VarianceNonIncreasing ==
    QuietVariances # <<>> =>
        /\ Len(QuietVariances) = Len(args.y)
        /\ FLe(QuietVariances[1], args.init_var)
        /\ \A t \in 2..Len(QuietVariances) :
               FLe(QuietVariances[t], QuietVariances[t - 1])
        /\ QuietVariances = VariancesOnZeros

\* A successful in-place call on three observations that are not all equal,
\* whose variances fall strictly at every step.
C10_Witness ==
    /\ QuietVariances # <<>>
    /\ fn = LevelInto
    /\ Len(args.y) = 3
    /\ args.y[1] # args.y[2]
    /\ FLt(QuietVariances[1], args.init_var)
    /\ FLt(QuietVariances[2], QuietVariances[1])
    /\ FLt(QuietVariances[3], QuietVariances[2])

(***************************************************************************)
(* Properties of the variance clamp (specification SpecClamp).             *)
(***************************************************************************)
Clamp == "clamp_small_negative"

\* x is below zero: finite or infinite, negative sign, not a zero.
Negative(x) ==
    x.cls # "nan" /\ x.sgn = 1 /\ ~(x.cls = "fin" /\ x.man = BZero)

\* x is finite and x >= 0 (either zero included).
FiniteNonNegative(x) == x.cls = "fin" /\ ~Negative(x)

\* x is finite and -1e-15 <= x < 0, read off the binade and the significand.
TinyNegative(x) ==
    /\ x.cls = "fin"
    /\ Negative(x)
    /\ \/ x.exp < TINY_NEG_CLAMP.exp
       \/ x.exp = TINY_NEG_CLAMP.exp /\ BCmp(x.man, TINY_NEG_CLAMP.man) <= 0

\* C11: clamp_small_negative has three outcomes: x itself when x is finite
\* and x >= 0, exactly 0 when x is finite and -1e-15 <= x < 0, and
\* NumericalInstability in every other case; no value it returns is
\* negative.
C11_ClampThreeOutcomes ==
    Returned(Clamp) =>
        /\ ret = IF FiniteNonNegative(args.x) THEN Ok(args.x)
                 ELSE IF TinyNegative(args.x) THEN Ok(F0)
                 ELSE Err(NumericalInstability(
                              "kalman: covariance became negative"))
        /\ ret.tag = "Ok" => ~Negative(ret.val)

\* The clamp was given exactly -1e-15 and returned 0.
C11_Witness ==
    /\ Returned(Clamp)
    /\ args.x = FNeg(TINY_NEG_CLAMP)
    /\ ret = Ok(F0)

(***************************************************************************)
(* Properties of the trend filter without trend (specification SpecFlat).  *)
(***************************************************************************)
\* The call has no trend: no trend noise, no initial trend, no initial
\* trend variance.
NoTrend == args.q_trend = F0 /\ args.init_trend = F0 /\ args.init_var_trend = F0

\* The f64 state of the trend loop after its iteration i (before the loop
\* for i = 0) when trend, p01 and p11 are zero: level and p00 are what the
\* iteration wrote.
FlatState(i) ==
    [level |-> IF i = 0 THEN args.init_level ELSE ret.out_level[i],
     trend |-> F0,
     p00 |-> IF i = 0 THEN args.init_var_level ELSE ret.out_var_level[i],
     p01 |-> F0, p11 |-> F0]

\* The loop body takes the state state to the state next.
FlatStep(obs, state, next) ==
    TrendStep(obs, args.r, args.q_level, args.q_trend, state.level,
              state.trend, state.p00, state.p01, state.p11) = Ok(next)

\* The place of a finite f64 x >= 0 in the order of the non-negative f64
\* values: 0 for zero, 1 for the least subnormal, and so on.
UlpIndex(x) == BAdd(BShl(BFromInt(x.exp - EMin), MantBits - 1), x.man)

\* The number of f64 values from a to b, both finite and >= 0.
UlpGap(a, b) ==
    IF BCmp(UlpIndex(a), UlpIndex(b)) >= 0
    THEN BSub(UlpIndex(a), UlpIndex(b))
    ELSE BSub(UlpIndex(b), UlpIndex(a))

\* a and b are finite, not negative, and at most four f64 values apart:
\* what the two roundings of a product of three factors, multiplied in one
\* order for a and in another for b, can leave between two sums that are
\* equal in exact arithmetic.
WithinRounding(a, b) ==
    /\ FiniteNonNegative(a)
    /\ FiniteNonNegative(b)
    /\ BCmp(UlpGap(a, b), BFromInt(4)) <= 0

\* The f64 loop body of the local-level filter, started in the state state
\* of the trend loop (mean = level, variance = p00), succeeds with the mean
\* next.level and with a variance within rounding of next.p00.
FlatLevelStep(obs, state, next) ==
    LET lv == LevelStep(obs, args.r, args.q_level, state.level, state.p00)
    IN  /\ lv.tag = "Ok"
        /\ is_finite(lv.val.x)
        /\ FCmp(lv.val.x, next.level) = 0
        /\ WithinRounding(lv.val.p, next.p00)

\* Iteration i of the local-level recursion lv and of the trend recursion tr
\* in exact arithmetic: both succeed, level and p00 are the mean and the
\* variance of the local-level filter, trend, p01 and p11 are zero.
SameExact(lv, tr, i) ==
    /\ lv[i].tag = "Ok"
    /\ tr[i] = Ok([level |-> lv[i].val.x, trend |-> QZero,
                   p00 |-> lv[i].val.p, p01 |-> QZero, p11 |-> QZero])

\* The two recursions in exact arithmetic agree at every step.
AllSameExact(lv, tr) ==
    /\ Len(lv) = Len(args.y)
    /\ Len(tr) = Len(args.y)
    /\ \A i \in 1..Len(args.y) : SameExact(lv, tr, i)

\* The values of the call are small integers.
SmallValues == args \in {TrendScalars(a) : a \in FlatArgs}

\* C12: the trend filter called with q_level = q, q_trend = 0, init_level =
\* m0, init_trend = 0, init_var_level = v0, init_var_trend = 0 keeps trend,
\* p01 and p11 at zero in every iteration and writes out_trend[t] = 0 and
\* out_var_trend[t] = 0.  On f64, one iteration of the local-level loop from
\* the state the trend loop is in gives the same mean and, within rounding,
\* the same variance; in exact arithmetic (followed for the calls on small
\* integers) level and p00 are, at every step, the mean and the variance of
\* the local-level filter on (y, r, q, m0, v0).
C12_TrendGeneralizesLevel ==
    (Returned(TrendInto) /\ NoTrend /\ GatePassed(ret.res)) =>
        /\ \A i \in 1..ret.t :
               /\ ret.out_trend[i] = F0
               /\ ret.out_var_trend[i] = F0
               /\ FlatStep(args.y[i], FlatState(i - 1), FlatState(i))
               /\ FlatLevelStep(args.y[i], FlatState(i - 1), FlatState(i))
        /\ SmallValues =>
           AllSameExact(
               LevelRunExact(args.y, args.r, args.q_level, args.init_level,
                             args.init_var_level),
               TrendRunExact(args.y, args.r, args.q_level, args.q_trend,
                             args.init_level, args.init_trend,
                             args.init_var_level, args.init_var_trend))

\* A call without trend on FlatLen observations succeeded with gains that are
\* not powers of two (r = 1, q = 0, v0 = 3: k = 3/4, 3/7, 3/10), and its
\* f64 variances are not bit for bit those of the local-level filter, whose
\* covariance update multiplies in another order: in some iteration the
\* local-level loop body, started in the state of the trend loop, rounds to
\* another variance than the trend loop body.
C12_Witness ==
    /\ Returned(TrendInto)
    /\ NoTrend
    /\ ret.res = Ok(Unit)
    /\ Len(args.y) = FlatLen
    /\ args.r = F1 /\ args.q_level = F0 /\ args.init_var_level = F3
    /\ ret.out_var_level #
           kalman_local_level_filter(args.y, args.r, args.q_level,
                                     args.init_level, args.init_var_level).val[2]
    /\ \E i \in 1..Len(args.y) :
           LevelStep(args.y[i], args.r, args.q_level, FlatState(i - 1).level,
                     FlatState(i - 1).p00) # Ok([x |-> FlatState(i).level,
                                                 p |-> FlatState(i).p00])

=============================================================================
